---- MODULE Spec2Model ----
(***************************************************************************)
(* Catalog synchronisation of MTGCardDatabase (src/cards.py): the full     *)
(* sync fetch_all_cards, the incremental sync update_database and the      *)
(* per-page upsert process_card_page, over a SQLite connection whose       *)
(* writes stay in one open transaction until conn.commit(); the           *)
(* normalisation of one raw record with its read by get_card_details;      *)
(* get_stats; create_tables on an existing file; and the search threads of *)
(* MTGCardSearchApp (src/cards_search.py) on their shared cursor.          *)
(***************************************************************************)
EXTENDS Integers, Sequences, FiniteSets, TLC

\* ------------------------------------------------------------------ bounds
\* Longest listing the remote source serves.
MaxCat == 3
\* Records per page of the remote source.
PageSize == 2
\* Sync runs started in one behaviour.
MaxRuns == 2
\* Last reading of the wall clock that still differs from the one before.
MaxClock == 2
\* Longest list of faces of a raw record.
MaxFaces == 2
\* Longest colors / color_identity list of a raw record.
MaxColors == 2
\* Most rows of a cards table get_stats is run on.
MaxRows == 2
\* Times the database file is opened again.
MaxOpens == 3
\* Searches started in one behaviour.
MaxSearches == 2
\* LIMIT 10 of the search query.
SearchLimit == 10
\* Faults the environment injects: storage faults (sqlite3.OperationalError)
\* and kills of the process.
MaxFaults == 1
\* Farthest the total the source declares is from the length of its listing.
MaxStale == 1

\* ------------------------------------------------------------- raw records
\* Raw records the remote source can serve.  "a" has two versions whose
\* legality and keyword sets differ, the first without released_at; "b"
\* repeats a keyword (the second INSERT of it breaks PRIMARY KEY (card_id,
\* keyword)).
RawRecords ==
  << [id |-> "a", name |-> "A1", released_at |-> "",
      legalities |-> << <<"standard", "legal">>, <<"modern", "legal">> >>,
      keywords |-> << "Flying" >>],
     [id |-> "a", name |-> "A2", released_at |-> "2023-05-05",
      legalities |-> << <<"modern", "legal">> >>,
      keywords |-> << >>],
     [id |-> "b", name |-> "B1", released_at |-> "2020-01-01",
      legalities |-> << <<"legacy", "banned">> >>,
      keywords |-> << "Flying", "Flying", "Trample" >>],
     [id |-> "c", name |-> "C1", released_at |-> "2020-01-01",
      legalities |-> << >>,
      keywords |-> << "Trample" >>] >>

Ids == { RawRecords[n].id : n \in DOMAIN RawRecords }

Range(s) == { s[n] : n \in DOMAIN s }

Min(x, y) == IF x <= y THEN x ELSE y

\* ------------------------------------------------------------------- dates
\* released_at is TEXT; SQLite's MAX and Scryfall's date> compare ISO dates
\* as strings.  DateOrder lists the strings in that order.
DateOrder == << "", "2000-01-01", "2020-01-01", "2023-05-05" >>

DateRank(s) == CHOOSE n \in DOMAIN DateOrder : DateOrder[n] = s

\* ------------------------------------------------------------------- store
\* A database state: the rows of the cards, legalities and keywords tables,
\* each in insertion order.
EmptyDb == [cards |-> << >>, legalities |-> << >>, keywords |-> << >>]

\* A lookup by id that finds no row, whatever the table holds.
HasCard_Never(d, id) == FALSE

\* SELECT id FROM cards WHERE id = ? ; fetchone() is not None.
HasCard(d, id) == \E n \in DOMAIN d.cards : d.cards[n].id = id

CardIds(d) == { d.cards[n].id : n \in DOMAIN d.cards }

\* SELECT format, status FROM legalities WHERE card_id = ?
LegalitiesOf(d, id) ==
  { <<d.legalities[n][2], d.legalities[n][3]>> :
      n \in { m \in DOMAIN d.legalities : d.legalities[m][1] = id } }

\* SELECT keyword FROM keywords WHERE card_id = ?
KeywordsOf(d, id) ==
  { d.keywords[n][2] : n \in { m \in DOMAIN d.keywords : d.keywords[m][1] = id } }

\* ------------------------------------------------------------ remote source
\* The remote source is the listing it serves: raw records, by their number,
\* each listed at most once.
Sources ==
  { s \in UNION { [1..n -> DOMAIN RawRecords] : n \in 0..MaxCat } :
      \A i, j \in DOMAIN s : s[i] = s[j] => i = j }

\* The most pages a run can fetch.
MaxPages == (MaxCat + PageSize - 1) \div PageSize

\* A search that also returns the records released on the bound.
SearchResults_OnOrAfter(cat, bound) ==
  SelectSeq(cat, LAMBDA n : DateRank(RawRecords[n].released_at) >= DateRank(bound))

\* /cards/search?q=date>bound : the records released after the bound.
SearchResults(cat, bound) ==
  SelectSeq(cat, LAMBDA n : DateRank(RawRecords[n].released_at) > DateRank(bound))

VARIABLES
  disk,             \* the committed content of the database file
  conn,             \* what self.conn reads: disk plus the open transaction
  source,           \* the listing of the remote source
  failAt,           \* the fetch of the run that is refused (0: none)
  now,              \* the wall clock
  pc,               \* "idle", "page" (inside process_card_page), "sleep"
  mode,             \* "full" (fetch_all_cards) or "incr" (update_database)
  update_existing,  \* the argument of process_card_page
  results,          \* the result list the source paginates for this run
  data,             \* the page last fetched (response.json())
  idx,              \* position of the for loop in data['data']
  cards_processed,  \* the local counter of the run
  last_update_date, \* the lower bound of the incremental query
  log,              \* what the run printed
  ret,              \* how the run ended: "none", "returned", "raised", "killed"
  status,           \* status_code of the last response
  fetches,          \* requests.get calls of the run
  sleeps,           \* time.sleep calls of the run
  done,             \* records whose loop body completed in the run
  faults,           \* storage faults and kills injected so far
  runs,             \* runs started so far
  exc,              \* the exception raised in the run, "none" if none
  start,            \* conn and disk as they were when the run started
  prev,             \* mode, update_existing and failAt of the run before
  stale,            \* the declared total minus the length of the listing
  raw,              \* a raw record (the JSON object) given to the loop body
  row,              \* << >>, or the columns the loop body computed from raw
  details,          \* << >>, or what get_card_details returns for the row
  npc,              \* "none", "raw", "stored", "raised", "read"
  table,            \* rows of the cards table get_stats reads
  stats,            \* << >>, or the dict get_stats returned
  schema,           \* the tables the database file holds
  opens,            \* times the file was opened again (__init__)
  late,             \* ids the source added behind the store's watermark
  threads,          \* the search threads: where each is, its term, its results
  cursor,           \* the result set pending on the one cursor of the front-end
  search_var,       \* the text of the search entry
  search_results,   \* self.search_results of the front-end
  after,            \* the callbacks root.after(0, ...) queued for the main loop
  displayed,        \* the rows in the results container, and whose display it was
  status_var        \* the text of the status bar

\* The part of the state the sync runs work on.
sync == << disk, conn, source, stale, failAt, now, pc, mode, update_existing, results, data,
           idx, cards_processed, last_update_date, log, ret, status, fetches,
           sleeps, done, faults, runs, exc, start, prev >>

\* The state of the search front-end (src/cards_search.py).
search == << threads, cursor, search_var, search_results, after, displayed,
            status_var >>

\* The part of the state neither the runs nor the normalisation work on.
aside == << schema, opens, late, search >>

vars == << sync, raw, row, details, npc, table, stats, aside >>

\* The part of the state the normalisation of one record works on.
norm == << raw, row, details, npc, table, stats >>

\* Page k of a result list, in the shape of the API's JSON.  total_cards is
\* what the source declares: a count taken at another time than the listing.
Page(list, k) ==
  [data |-> SubSeq(list, (k - 1) * PageSize + 1, Min(k * PageSize, Len(list))),
   has_more |-> k * PageSize < Len(list),
   next_page |-> k + 1,
   total_cards |-> IF Len(list) + stale < 0 THEN 0 ELSE Len(list) + stale]


\* ------------------------------------------------------- SQL of one record
\* One cursor.execute that writes.  A statement that breaks a PRIMARY KEY
\* raises sqlite3.IntegrityError and changes nothing; the statements executed
\* before it stay in the open transaction.
ExecStmt(d, s) ==
  CASE s[1] = "INSERT_CARD" ->
         IF HasCard(d, s[2].id)
           THEN [db |-> d, ok |-> FALSE]
           ELSE [db |-> [d EXCEPT !.cards = Append(@, s[2])], ok |-> TRUE]
    [] s[1] = "UPDATE_CARD" ->
         [db |-> [d EXCEPT !.cards =
                    [n \in DOMAIN @ |-> IF @[n].id = s[2].id THEN s[2] ELSE @[n]]],
          ok |-> TRUE]
    [] s[1] = "DELETE" ->
         [db |-> IF s[2] = "cards"
                   THEN [d EXCEPT !.cards = SelectSeq(@, LAMBDA x : x.id # s[3])]
                   ELSE [d EXCEPT ![s[2]] = SelectSeq(@, LAMBDA x : x[1] # s[3])],
          ok |-> TRUE]
    [] s[1] = "INSERT_LEGALITY" ->
         IF \E n \in DOMAIN d.legalities :
              d.legalities[n][1] = s[2][1] /\ d.legalities[n][2] = s[2][2]
           THEN [db |-> d, ok |-> FALSE]
           ELSE [db |-> [d EXCEPT !.legalities = Append(@, s[2])], ok |-> TRUE]
    [] s[1] = "INSERT_KEYWORD" ->
         IF \E n \in DOMAIN d.keywords : d.keywords[n] = s[2]
           THEN [db |-> d, ok |-> FALSE]
           ELSE [db |-> [d EXCEPT !.keywords = Append(@, s[2])], ok |-> TRUE]

\* The statements in program order, up to the first one that raises.
RECURSIVE ExecAll(_, _)
ExecAll(d, stmts) ==
  IF stmts = << >>
    THEN [db |-> d, ok |-> TRUE]
    ELSE LET r == ExecStmt(d, Head(stmts))
         IN  IF r.ok THEN ExecAll(r.db, Tail(stmts)) ELSE [db |-> d, ok |-> FALSE]

\* card_data: the columns of the row, stamped with datetime.now().
CardData(card, t) ==
  [id |-> card.id, name |-> card.name, released_at |-> card.released_at,
   last_updated |-> t]

\* UpdateStatements without the DELETE of the keywords.
UpdateStatements_KeepKeywords(card, t) ==
  << <<"UPDATE_CARD", CardData(card, t)>>,
     <<"DELETE", "legalities", card.id>> >>

\* UpdateStatements without the DELETE of the legalities.
UpdateStatements_KeepLegalities(card, t) ==
  << <<"UPDATE_CARD", CardData(card, t)>>,
     <<"DELETE", "keywords", card.id>> >>

\* UpdateStatements with a DELETE of the card row in place of its UPDATE.
UpdateStatements_DeleteCard(card, t) ==
  << <<"DELETE", "cards", card.id>>,
     <<"DELETE", "legalities", card.id>>,
     <<"DELETE", "keywords", card.id>> >>

\* UpdateStatements whose DELETEs are keyed by the id of the first raw
\* record, whatever card is written.
UpdateStatements_DeleteFixedId(card, t) ==
  << <<"UPDATE_CARD", CardData(card, t)>>,
     <<"DELETE", "legalities", RawRecords[1].id>>,
     <<"DELETE", "keywords", RawRecords[1].id>> >>

\* The writes of an existing card: UPDATE, then both DELETEs.
UpdateStatements(card, t) ==
  << <<"UPDATE_CARD", CardData(card, t)>>,
     <<"DELETE", "legalities", card.id>>,
     <<"DELETE", "keywords", card.id>> >>

\* A new card written without its cards row.
InsertStatements_NoRow(card, t) == << >>

\* The write of a new card: INSERT.
InsertStatements(card, t) ==
  << <<"INSERT_CARD", CardData(card, t)>> >>

\* The INSERTs of the dependent rows, legalities first, in the record's order.
DependentStatements(card) ==
  [n \in DOMAIN card.legalities |->
     <<"INSERT_LEGALITY", <<card.id, card.legalities[n][1], card.legalities[n][2]>> >>]
  \o [n \in DOMAIN card.keywords |->
        <<"INSERT_KEYWORD", <<card.id, card.keywords[n]>> >>]

\* The body of the for loop without the test of update_existing.
ProcessCard_Overwrite(d, card, upd, t) ==
  ExecAll(d, (IF HasCard(d, card.id) THEN UpdateStatements(card, t)
                                     ELSE InsertStatements(card, t))
             \o DependentStatements(card))

\* The body of the for loop skipping every stored card.
ProcessCard_KeepFirst(d, card, upd, t) ==
  IF HasCard(d, card.id)
    THEN [db |-> d, ok |-> TRUE]
    ELSE ExecAll(d, InsertStatements(card, t) \o DependentStatements(card))

\* The body of the for loop for one card.
ProcessCard(d, card, upd, t) ==
  LET existing_card == HasCard(d, card.id)
  IN  IF existing_card /\ ~upd
        THEN [db |-> d, ok |-> TRUE]
        ELSE ExecAll(d, (IF existing_card THEN UpdateStatements(card, t)
                                          ELSE InsertStatements(card, t))
                        \o DependentStatements(card))

\* Whether the loop body reads the clock (it does unless the card is skipped).
Skips(d, card, upd) == HasCard(d, card.id) /\ ~upd

\* Commit that writes nothing to the file.
Commit_Lost(d, c) == d

\* self.conn.commit(): the open transaction becomes the file's content.
Commit(d, c) == c

\* MaxReleasedAt with MIN for MAX.
MaxReleasedAt_Min(d) ==
  IF d.cards = << >>
    THEN "NULL"
    ELSE LET S == { d.cards[n].released_at : n \in DOMAIN d.cards }
         IN  CHOOSE s \in S : \A u \in S : DateRank(s) <= DateRank(u)

\* SELECT MAX(released_at) FROM cards: NULL on no row, else the greatest text.
MaxReleasedAt(d) ==
  IF d.cards = << >>
    THEN "NULL"
    ELSE LET S == { d.cards[n].released_at : n \in DOMAIN d.cards }
         IN  CHOOSE s \in S : \A u \in S : DateRank(u) <= DateRank(s)

\* result[0] if result[0] else "2000-01-01": NULL and '' are both falsy.
LastUpdateDate(d) ==
  LET m == MaxReleasedAt(d)
  IN  IF m = "NULL" \/ m = "" THEN "2000-01-01" ELSE m

\* response.status_code of the n-th fetch of a run, f being the refused one.
ListStatus(f, n) == IF f = n THEN 500 ELSE 200

\* The search endpoint answers 404 when nothing matches.
SearchStatus(f, list) ==
  IF f = 1 THEN 500 ELSE IF list = << >> THEN 404 ELSE 200

\* FirstPageOk that takes every status for a success.
FirstPageOk_Any(st) == TRUE

\* NoNewCards that never recognises the 404.
NoNewCards_Never(st) == FALSE

\* A refused page that is not reported.
PageErrorReport_Silent == << >>

\* The status checks of the code.
FirstPageOk(st) == st = 200

NextPageOk(st) == st = 200

NoNewCards(st) == st = 404

\* What the code prints when a page after the first is refused.
PageErrorReport == << "Error fetching page" >>

\* A loop that fetches the next page without waiting.
Delay_None(n) == n

\* time.sleep(0.1), the first statement of the loop body: one more delay
\* taken before the fetch that follows.
Delay(n) == n + 1

\* A loop that goes on until the counter reaches the declared total.
MorePages_ByTotal(d, processed) == processed < d.total_cards

\* while data.get('has_more', False): the test reads the flag of the page
\* last fetched, not the counter and not the declared total.
MorePages(d, processed) == d.has_more


\* ------------------------------------------------------------------- runs
\* A new database file after __init__ / create_tables, nothing running.
Fresh ==
  /\ disk = EmptyDb
  /\ conn = EmptyDb
  /\ source \in Sources
  /\ failAt = 0
  /\ now = 0
  /\ pc = "idle"
  /\ mode = "none"
  /\ update_existing = TRUE
  /\ results = << >>
  /\ data = Page(<< >>, 1)
  /\ idx = 1
  /\ cards_processed = 0
  /\ last_update_date = "NULL"
  /\ log = << >>
  /\ ret = "none"
  /\ status = 0
  /\ fetches = 0
  /\ sleeps = 0
  /\ done = 0
  /\ faults = 0
  /\ runs = 0
  /\ exc = "none"
  /\ start = [conn |-> EmptyDb, disk |-> EmptyDb]
  /\ prev = [mode |-> "none", update_existing |-> TRUE, failAt |-> 0]

\* No record is being normalised apart from the runs.
NoNorm ==
  /\ raw = << >> /\ row = << >> /\ details = << >> /\ npc = "none"
  /\ table = << >> /\ stats = << >>

\* The front-end after __init__: connected, nothing searched.
NoSearch ==
  /\ threads = << >>
  /\ cursor = [by |-> 0, rows |-> << >>]
  /\ search_var = ""
  /\ search_results = << >>
  /\ after = << >>
  /\ displayed = [by |-> 0, rows |-> << >>]
  /\ status_var = "Connected"

\* The three tables exist, the file was opened once.
NoAside ==
  /\ schema = {"cards", "legalities", "keywords"} /\ opens = 0 /\ late = {}
  /\ NoSearch

\* The source declares the length of its listing.
Init == stale = 0 /\ Fresh /\ NoNorm /\ NoAside

\* The source declares a total below or above the length of its listing.
InitAnyTotal == stale \in {-MaxStale, MaxStale} /\ Fresh /\ NoNorm /\ NoAside

\* What every entry point sets when it is called.
Enter(m, upd) ==
  /\ pc = "idle"
  /\ runs < MaxRuns
  /\ runs' = runs + 1
  /\ mode' = m
  /\ update_existing' = upd
  /\ start' = [conn |-> conn, disk |-> disk]
  /\ prev' = [mode |-> mode, update_existing |-> update_existing,
              failAt |-> failAt]
  /\ failAt' \in 0..MaxPages
  /\ fetches' = 1
  /\ sleeps' = 0
  /\ done' = 0
  /\ cards_processed' = 0
  /\ idx' = 1
  /\ exc' = "none"
  /\ UNCHANGED << norm, aside, disk, conn, source, stale, now, faults >>

\* fetch_all_cards up to the first call of process_card_page.
FetchAllCards(upd) ==
  /\ Enter("full", upd)
  /\ results' = source
  /\ status' = ListStatus(failAt', 1)
  /\ UNCHANGED last_update_date
  /\ IF FirstPageOk(status')
       THEN /\ data' = Page(results', 1)
            /\ log' = << "Starting", "Found" >>
            /\ pc' = "page"
            /\ ret' = "none"
       ELSE /\ data' = data
            /\ log' = << "Starting", "Error fetching cards" >>
            /\ pc' = "idle"
            /\ ret' = "returned"

\* update_database up to the first call of process_card_page.
UpdateDatabase ==
  /\ Enter("incr", TRUE)
  /\ last_update_date' = LastUpdateDate(conn)
  /\ results' = SearchResults(source, last_update_date')
  /\ status' = SearchStatus(failAt', results')
  /\ IF NoNewCards(status')
       THEN /\ data' = data
            /\ log' = << "Updating", "No new cards found" >>
            /\ pc' = "idle"
            /\ ret' = "returned"
       ELSE IF ~FirstPageOk(status')
         THEN /\ data' = data
              /\ log' = << "Updating", "Error fetching updates" >>
              /\ pc' = "idle"
              /\ ret' = "returned"
         ELSE /\ data' = Page(results', 1)
              /\ log' = << "Updating", "Found" >>
              /\ pc' = "page"
              /\ ret' = "none"

\* An exception leaves process_card_page: fetch_all_cards lets it through to
\* its caller, update_database catches it, prints it and returns.
Raise(e) ==
  /\ exc' = e
  /\ pc' = "idle"
  /\ IF mode = "full"
       THEN ret' = "raised" /\ log' = log
       ELSE ret' = "returned" /\ log' = Append(log, "Error during update")

\* One pass of the for loop of process_card_page that completes.
ProcessRecord ==
  /\ pc = "page"
  /\ idx <= Len(data.data)
  /\ LET card == RawRecords[data.data[idx]]
     IN  \E t \in now..Min(now + 1, MaxClock) :
           LET r == ProcessCard(conn, card, update_existing, t)
           IN  /\ r.ok
               /\ IF Skips(conn, card, update_existing) THEN t = now ELSE TRUE
               /\ conn' = r.db
               /\ now' = t
  /\ idx' = idx + 1
  /\ done' = done + 1
  /\ UNCHANGED << norm, aside, disk, source, stale, failAt, pc, mode, update_existing, results, data,
                  cards_processed, last_update_date, log, ret, status, fetches, sleeps,
                  faults, runs, exc, start, prev >>

\* One pass of the for loop in which a statement raises IntegrityError: the
\* statements before it stay in the open transaction, nothing is committed or
\* rolled back, the rest of the page is not processed.
RecordRaises ==
  /\ pc = "page"
  /\ idx <= Len(data.data)
  /\ LET card == RawRecords[data.data[idx]]
     IN  \E t \in now..Min(now + 1, MaxClock) :
           LET r == ProcessCard(conn, card, update_existing, t)
           IN  /\ ~r.ok
               /\ conn' = r.db
               /\ now' = t
  /\ Raise("IntegrityError")
  /\ UNCHANGED << norm, aside, disk, source, stale, failAt, mode, update_existing, results, data, idx,
                  cards_processed, last_update_date, status, fetches, sleeps, done,
                  faults, runs, start, prev >>

\* The SELECT that looks the card up raises sqlite3.OperationalError (the
\* file is locked, the disk fails).
StorageFault ==
  /\ pc = "page"
  /\ idx <= Len(data.data)
  /\ faults < MaxFaults
  /\ faults' = faults + 1
  /\ Raise("OperationalError")
  /\ UNCHANGED << norm, aside, disk, conn, source, stale, failAt, now, mode, update_existing, results, data,
                  idx, cards_processed, last_update_date, status, fetches, sleeps, done,
                  runs, start, prev >>

\* The end of process_card_page (conn.commit()) and of the loop body of the
\* caller: the counter, the progress line, the test of has_more.
CommitPage ==
  /\ pc = "page"
  /\ idx > Len(data.data)
  /\ disk' = Commit(disk, conn)
  /\ cards_processed' = cards_processed + Len(data.data)
  /\ IF MorePages(data, cards_processed')
       THEN /\ pc' = "sleep"
            /\ log' = Append(log, "Processed")
            /\ ret' = ret
       ELSE /\ pc' = "idle"
            /\ log' = log \o << "Processed", "Finished" >>
            /\ ret' = "returned"
  /\ UNCHANGED << norm, aside, conn, source, stale, failAt, now, mode, update_existing, results, data, idx,
                  last_update_date, status, fetches, sleeps, done, faults, runs, exc,
                  start, prev >>

\* time.sleep(0.1) and the fetch of data['next_page'].
FetchNextPage ==
  /\ pc = "sleep"
  /\ sleeps' = Delay(sleeps)
  /\ fetches' = fetches + 1
  /\ status' = ListStatus(failAt, fetches')
  /\ IF NextPageOk(status')
       THEN /\ data' = Page(results, data.next_page)
            /\ idx' = 1
            /\ pc' = "page"
            /\ log' = log
            /\ ret' = ret
       ELSE /\ data' = data
            /\ idx' = idx
            /\ pc' = "idle"
            /\ log' = log \o PageErrorReport \o << "Finished" >>
            /\ ret' = "returned"
  /\ UNCHANGED << norm, aside, disk, conn, source, stale, failAt, now, mode, update_existing, results,
                  cards_processed, last_update_date, done, faults, runs, exc,
                  start, prev >>

\* The process is killed inside a run: the open transaction is never
\* committed, the locals of the run are gone with the process, and the
\* connection the next process opens reads the file.
Kill ==
  /\ pc # "idle"
  /\ faults < MaxFaults
  /\ faults' = faults + 1
  /\ conn' = disk
  /\ pc' = "idle"
  /\ ret' = "killed"
  /\ results' = << >>
  /\ data' = Page(<< >>, 1)
  /\ idx' = 1
  /\ cards_processed' = 0
  /\ last_update_date' = "NULL"
  /\ status' = 0
  /\ exc' = "none"
  /\ failAt' = 0
  /\ fetches' = 0
  /\ sleeps' = 0
  /\ done' = 0
  /\ UNCHANGED << norm, aside, disk, source, stale, now, mode, update_existing, log, runs,
                  start, prev >>

Next ==
  \/ \E upd \in BOOLEAN : FetchAllCards(upd)
  \/ UpdateDatabase
  \/ ProcessRecord
  \/ RecordRaises
  \/ StorageFault
  \/ CommitPage
  \/ FetchNextPage

Spec == Init /\ [][Next]_vars

\* The runs, and the kills of the process the environment can make.
NextOrKill == Next \/ Kill

SpecKill == Init /\ [][NextOrKill]_vars

\* ------------------------------------------------------- opening the store
\* The tables in the order create_tables creates them.
TableNames == << "cards", "legalities", "keywords" >>

\* CREATE TABLE t: sqlite3.OperationalError when the table exists.
CreateTable_Plain(f, t) ==
  IF t \in f.schema
    THEN [file |-> f, ok |-> FALSE]
    ELSE [file |-> [schema |-> f.schema \cup {t},
                    db |-> [f.db EXCEPT ![t] = << >>]],
          ok |-> TRUE]

\* CREATE TABLE IF NOT EXISTS t on the file f: nothing when the table
\* exists, an empty table otherwise.
CreateTable(f, t) ==
  IF t \in f.schema
    THEN [file |-> f, ok |-> TRUE]
    ELSE [file |-> [schema |-> f.schema \cup {t},
                    db |-> [f.db EXCEPT ![t] = << >>]],
          ok |-> TRUE]

\* create_tables from its n-th statement on, up to the first that raises.
RECURSIVE CreateTables(_, _)
CreateTables(f, n) ==
  IF n > Len(TableNames)
    THEN [file |-> f, ok |-> TRUE]
    ELSE LET r == CreateTable(f, TableNames[n])
         IN  IF r.ok THEN CreateTables(r.file, n + 1) ELSE r

\* The store after the records of a listing went through the loop body in
\* order at clock reading t, up to the first that raises.
RECURSIVE Synced(_, _, _)
Synced(d, list, t) ==
  IF list = << >>
    THEN d
    ELSE LET r == ProcessCard(d, RawRecords[Head(list)], TRUE, t)
         IN  IF r.ok THEN Synced(r.db, Tail(list), t) ELSE r.db

\* The stores a sync of a listing at clock reading t leaves in the file.
Stores(t) == { Synced(EmptyDb, s, t) : s \in Sources }

\* A new process constructs MTGCardDatabase on the file: sqlite3.connect,
\* then create_tables and its commit.
Open ==
  /\ pc = "idle"
  /\ opens < MaxOpens
  /\ opens' = opens + 1
  /\ LET r == CreateTables([schema |-> schema, db |-> disk], 1)
     IN  /\ schema' = r.file.schema
         /\ disk' = r.file.db
         /\ conn' = r.file.db
         /\ exc' = IF r.ok THEN "none" ELSE "OperationalError"
  /\ UNCHANGED << norm, late, search, source, stale, failAt, now, pc, mode,
                  update_existing, results, data, idx, cards_processed,
                  last_update_date, log, ret, status, fetches, sleeps, done,
                  faults, runs, start, prev >>

\* A process that has just opened the file: nothing ran, nothing is in an
\* open transaction.
AtRest ==
  /\ conn = disk
  /\ failAt = 0
  /\ pc = "idle"
  /\ mode = "none"
  /\ update_existing = TRUE
  /\ results = << >>
  /\ data = Page(<< >>, 1)
  /\ idx = 1
  /\ cards_processed = 0
  /\ last_update_date = "NULL"
  /\ log = << >>
  /\ ret = "none"
  /\ status = 0
  /\ fetches = 0
  /\ sleeps = 0
  /\ done = 0
  /\ faults = 0
  /\ runs = 0
  /\ exc = "none"
  /\ start = [conn |-> disk, disk |-> disk]
  /\ prev = [mode |-> "none", update_existing |-> TRUE, failAt |-> 0]

\* A file that does not exist yet, or one that holds a store; no process
\* has it open.
InitOpen ==
  /\ stale = 0
  /\ \/ schema = {} /\ disk = EmptyDb
     \/ schema = Range(TableNames) /\ disk \in UNION { Stores(t) : t \in 0..MaxClock }
  /\ source = << >>
  /\ now = MaxClock
  /\ AtRest
  /\ NoNorm
  /\ opens = 0
  /\ late = {}
  /\ NoSearch

NextOpen == Open

SpecOpen == InitOpen /\ [][NextOpen]_vars


\* ------------------------------------------- normalisation of one record
\* A JSON object is a function from the keys it has to their values.
Has(dict, k) == k \in DOMAIN dict

\* dict.get(k, default)
Get(dict, k, default) == IF k \in DOMAIN dict THEN dict[k] ELSE default

\* Python's None, SQL's NULL.
None == "None"

\* The JSON objects with no key, or with key k and a value of S.
Optional(k, S) == { << >> } \cup { k :> v : v \in S }

\* The lists of at most n elements of S.
ListsUpTo(S, n) == UNION { [1..m -> S] : m \in 0..n }

\* The faces a raw record can have: with or without a text, with or without
\* image_uris, those with or without a normal size.
Faces ==
  { t @@ i : t \in Optional("oracle_text", {"A", "B"}),
             i \in Optional("image_uris",
                            Optional("normal", {"front.jpg", "back.jpg"})) }

Colors == {"W", "U"}

\* The raw records given to the loop body: every shape of the text, the
\* faces and the images, and every pair of colour lists.
RawCards ==
  { t @@ f @@ i :
      t \in Optional("oracle_text", {"", "T"}),
      f \in Optional("card_faces", ListsUpTo(Faces, MaxFaces)),
      i \in Optional("image_uris", Optional("normal", {"card.jpg"})) }
  \cup
  { c @@ ci :
      c \in Optional("colors", ListsUpTo(Colors, MaxColors)),
      ci \in Optional("color_identity", ListsUpTo(Colors, MaxColors)) }

\* sep.join(strs)
RECURSIVE Join(_, _)
Join(sep, strs) ==
  IF strs = << >> THEN ""
  ELSE IF Len(strs) = 1 THEN strs[1]
  ELSE strs[1] \o sep \o Join(sep, Tail(strs))

\* faces_text: the texts of the faces that have one, in face order.
RECURSIVE FacesText(_)
FacesText(faces) ==
  IF faces = << >> THEN << >>
  ELSE (IF Has(Head(faces), "oracle_text")
          THEN << Head(faces)["oracle_text"] >> ELSE << >>)
       \o FacesText(Tail(faces))

\* The oracle text taken from the record alone, its faces never read.
OracleText_DirectOnly(c) == Get(c, "oracle_text", "")

\* oracle_text of the loop body: the record's text, or, when the record has
\* faces and its text is missing or empty, the faces' texts joined.
OracleText(c) ==
  LET oracle_text == Get(c, "oracle_text", "")
  IN  IF Has(c, "card_faces") /\ oracle_text = ""
        THEN Join(" // ", FacesText(c["card_faces"]))
        ELSE oracle_text

\* image_uri of the loop body.  card['card_faces'][0] raises IndexError on
\* an empty list.
ImageUri(c) ==
  IF Has(c, "image_uris") /\ Has(c["image_uris"], "normal")
    THEN [ok |-> TRUE, value |-> c["image_uris"]["normal"]]
  ELSE IF Has(c, "card_faces")
    THEN IF c["card_faces"] = << >>
           THEN [ok |-> FALSE, value |-> None]
         ELSE IF Has(c["card_faces"][1], "image_uris")
           THEN [ok |-> TRUE,
                 value |-> Get(c["card_faces"][1]["image_uris"], "normal", None)]
         ELSE [ok |-> TRUE, value |-> None]
  ELSE [ok |-> TRUE, value |-> None]

\* The elements of list in the order W, U, B, R, G.
Sorted(list) ==
  LET Only(c) == SelectSeq(list, LAMBDA x : x = c)
  IN  Only("W") \o Only("U") \o Only("B") \o Only("R") \o Only("G")

\* The text of the elements of a JSON array, in Python's separators.
RECURSIVE JsonElements(_)
JsonElements(list) ==
  IF list = << >> THEN << >>
  ELSE << "\"", Head(list), "\"" >>
       \o (IF Len(list) = 1 THEN << >> ELSE << ",", " " >>)
       \o JsonElements(Tail(list))

\* json.dumps of the list sorted.
JsonDumps_Sorted(list) == << "[" >> \o JsonElements(Sorted(list)) \o << "]" >>

\* json.dumps(list) of a list of one-letter strings: the text, character by
\* character.
JsonDumps(list) == << "[" >> \o JsonElements(list) \o << "]" >>

\* The strings in the text of the elements of a JSON array.
RECURSIVE JsonStrings(_)
JsonStrings(text) ==
  IF text = << >> THEN << >>
  ELSE IF Head(text) = "\""
    THEN << text[2] >> \o JsonStrings(SubSeq(text, 4, Len(text)))
    ELSE JsonStrings(Tail(text))

\* json.loads(text) of the text of an array of one-letter strings.
JsonLoads(text) == JsonStrings(SubSeq(text, 2, Len(text) - 1))

\* The loop body computes the columns of raw (lines 209-228 and the tuple
\* card_data); the row is then written as it is.
NormalizeCard ==
  /\ npc = "raw"
  /\ ImageUri(raw).ok
  /\ row' = << [oracle_text |-> OracleText(raw),
                colors |-> JsonDumps(Get(raw, "colors", << >>)),
                color_identity |-> JsonDumps(Get(raw, "color_identity", << >>)),
                image_uri |-> ImageUri(raw).value] >>
  /\ npc' = "stored"
  /\ UNCHANGED << sync, aside, raw, details, table, stats >>

\* The loop body raises on raw: no row is written.
NormalizeRaises ==
  /\ npc = "raw"
  /\ ~ImageUri(raw).ok
  /\ npc' = "raised"
  /\ UNCHANGED << sync, aside, raw, row, details, table, stats >>

\* get_card_details of the stored row: the columns, the two colour columns
\* decoded.
GetCardDetails ==
  /\ npc = "stored"
  /\ details' = << [row[1] EXCEPT !.colors = JsonLoads(@),
                                  !.color_identity = JsonLoads(@)] >>
  /\ npc' = "read"
  /\ UNCHANGED << sync, aside, raw, row, table, stats >>

\* A new database and one raw record to normalise.
InitNorm ==
  /\ stale = 0
  /\ Fresh
  /\ source = << >>
  /\ raw \in RawCards
  /\ row = << >>
  /\ details = << >>
  /\ npc = "raw"
  /\ table = << >>
  /\ stats = << >>
  /\ NoAside

NextNorm == NormalizeCard \/ NormalizeRaises \/ GetCardDetails

SpecNorm == InitNorm /\ [][NextNorm]_vars


\* --------------------------------------------------------------- get_stats
\* The colour letters of the source.
ColorLetters == {"W", "U", "B", "R", "G"}

\* The color_identity lists of the rows: every list of Colors, and every
\* list of one letter.
IdentityLists ==
  ListsUpTo(Colors, MaxColors) \cup { << c >> : c \in ColorLetters }

\* The type lines of the rows; '' is what a record without type_line gets.
TypeLines ==
  { "Artifact Creature", "Land Creature", "Enchantment Creature",
    "Legendary Planeswalker", "Instant", "Sorcery", "Enchantment",
    "Artifact Land", "Artifact", "Basic Land", "Conspiracy", "" }

\* The rows of the cards table as process_card_page stores them: the
\* color_identity column is the JSON text of the list.
StatRows ==
  { [color_identity |-> JsonDumps(l), type_line |-> "Instant"] :
      l \in IdentityLists }
  \cup { [color_identity |-> JsonDumps(<< >>), type_line |-> t] : t \in TypeLines }

\* The SQL literal '["c"]', character by character.
OneColor(c) == << "[", "\"", c, "\"", "]" >>

\* A grouping that looks for the letter anywhere in the text, as LIKE would.
ColorGroup_Like(text) ==
  IF text = << "[", "]" >> THEN "Colorless"
  ELSE IF "W" \in Range(text) THEN "White"
  ELSE IF "U" \in Range(text) THEN "Blue"
  ELSE IF "B" \in Range(text) THEN "Black"
  ELSE IF "R" \in Range(text) THEN "Red"
  ELSE IF "G" \in Range(text) THEN "Green"
  ELSE "Multicolor"

\* CASE WHEN color_identity = '[]' ... ELSE 'Multicolor' END: the stored
\* text compared with seven literals, first match.
ColorGroup(text) ==
  IF text = << "[", "]" >> THEN "Colorless"
  ELSE IF text = OneColor("W") THEN "White"
  ELSE IF text = OneColor("U") THEN "Blue"
  ELSE IF text = OneColor("B") THEN "Black"
  ELSE IF text = OneColor("R") THEN "Red"
  ELSE IF text = OneColor("G") THEN "Green"
  ELSE "Multicolor"

\* type_line LIKE '%word%'
Like(type_line, word) ==
  \E i \in 1..(Len(type_line) - Len(word) + 1) :
    SubSeq(type_line, i, i + Len(word) - 1) = word

\* A grouping that tests Artifact and Land before the other words.
TypeGroup_ArtifactFirst(type_line) ==
  IF Like(type_line, "Artifact") THEN "Artifact"
  ELSE IF Like(type_line, "Land") THEN "Land"
  ELSE IF Like(type_line, "Creature") THEN "Creature"
  ELSE IF Like(type_line, "Planeswalker") THEN "Planeswalker"
  ELSE IF Like(type_line, "Instant") THEN "Instant"
  ELSE IF Like(type_line, "Sorcery") THEN "Sorcery"
  ELSE IF Like(type_line, "Enchantment") THEN "Enchantment"
  ELSE "Other"

\* CASE WHEN type_line LIKE '%Creature%' ... ELSE 'Other' END, first match.
TypeGroup(type_line) ==
  IF Like(type_line, "Creature") THEN "Creature"
  ELSE IF Like(type_line, "Planeswalker") THEN "Planeswalker"
  ELSE IF Like(type_line, "Instant") THEN "Instant"
  ELSE IF Like(type_line, "Sorcery") THEN "Sorcery"
  ELSE IF Like(type_line, "Enchantment") THEN "Enchantment"
  ELSE IF Like(type_line, "Artifact") THEN "Artifact"
  ELSE IF Like(type_line, "Land") THEN "Land"
  ELSE "Other"

\* SELECT group, COUNT(*) ... GROUP BY group, as dict(fetchall()): the
\* groups that have a row, each with the number of its rows.
GroupCount(groups) ==
  [g \in Range(groups) |-> Cardinality({ i \in DOMAIN groups : groups[i] = g })]

\* get_stats on the table.
GetStats ==
  /\ stats = << >>
  /\ stats' = << [total_cards |-> Len(table),
                  colors |-> GroupCount([i \in DOMAIN table |->
                                           ColorGroup(table[i].color_identity)]),
                  types |-> GroupCount([i \in DOMAIN table |->
                                          TypeGroup(table[i].type_line)])] >>
  /\ UNCHANGED << sync, aside, raw, row, details, npc, table >>

\* A database holding some rows, get_stats not yet called.
InitStats ==
  /\ stale = 0
  /\ Fresh
  /\ source = << >>
  /\ raw = << >> /\ row = << >> /\ details = << >> /\ npc = "none"
  /\ table \in ListsUpTo(StatRows, MaxRows)
  /\ stats = << >>
  /\ NoAside

NextStats == GetStats

SpecStats == InitStats /\ [][NextStats]_vars

\* The first sync run of a new database, whatever total the source declares.
OneRun ==
  \/ \E upd \in BOOLEAN : FetchAllCards(upd) /\ runs' = 1
  \/ UpdateDatabase /\ runs' = 1
  \/ ProcessRecord
  \/ RecordRaises
  \/ StorageFault
  \/ CommitPage
  \/ FetchNextPage

\* The calls made inside a run return: the thread of the run goes on.
RunStep == ProcessRecord \/ RecordRaises \/ CommitPage \/ FetchNextPage

SpecOneRun == InitAnyTotal /\ [][OneRun]_vars /\ WF_vars(RunStep)

\* A store left by an earlier sync, and a source whose listing is another
\* one by now.
InitResync ==
  /\ stale = 0
  /\ disk \in Stores(0)
  /\ source \in Sources
  /\ now = 0
  /\ AtRest
  /\ NoNorm
  /\ NoAside

\* One sync run on that store.
SpecResync == InitResync /\ [][OneRun]_vars

\* ------------------------------------------------------ a source that grows
\* Record n is released no later than the newest stored card, and its id is
\* not stored.
BackDated(n) ==
  /\ conn.cards # << >>
  /\ ~HasCard(conn, RawRecords[n].id)
  /\ DateRank(RawRecords[n].released_at) <= DateRank(MaxReleasedAt(conn))

\* Between two runs the source adds a card to its listing.
SourceAdds ==
  /\ pc = "idle"
  /\ Len(source) < MaxCat
  /\ \E n \in DOMAIN RawRecords :
       /\ \A k \in DOMAIN source : RawRecords[source[k]].id # RawRecords[n].id
       /\ source' = Append(source, n)
       /\ late' = IF BackDated(n) THEN late \cup {RawRecords[n].id} ELSE late
  /\ UNCHANGED << norm, schema, opens, search, disk, conn, stale, failAt, now, pc, mode,
                  update_existing, results, data, idx, cards_processed,
                  last_update_date, log, ret, status, fetches, sleeps, done,
                  faults, runs, exc, start, prev >>

\* A store that holds what a sync of the source's listing left.
InitBackfill ==
  /\ stale = 0
  /\ source \in Sources
  /\ disk = Synced(EmptyDb, source, 0)
  /\ now = 0
  /\ AtRest
  /\ NoNorm
  /\ NoAside

\* The source grows, and every sync is update_database.
NextBackfill ==
  \/ SourceAdds
  \/ UpdateDatabase
  \/ ProcessRecord
  \/ RecordRaises
  \/ StorageFault
  \/ CommitPage
  \/ FetchNextPage

SpecBackfill == InitBackfill /\ [][NextBackfill]_vars

\* ------------------------------------------------------- the search window
\* The terms the user types.
Terms == { "A", "1", "Z" }

\* ORDER BY name: the names of the raw records, which RawRecords lists in
\* that order.
NameOrder == [n \in DOMAIN RawRecords |-> RawRecords[n].name]

\* The rows of SELECT ... FROM cards WHERE name LIKE '%term%' ORDER BY name
\* LIMIT 10, each row by its name.
SearchRows(d, term) ==
  LET hits == SelectSeq(NameOrder,
                LAMBDA nm : /\ \E n \in DOMAIN d.cards : d.cards[n].name = nm
                            /\ Like(nm, term))
  IN  SubSeq(hits, 1, Min(Len(hits), SearchLimit))

\* What every step of the front-end leaves alone.
NotSearch == << sync, norm, schema, opens, late >>

\* The user types a term and presses Enter: on_search starts a thread.
OnSearch ==
  /\ Len(threads) < MaxSearches
  /\ \E term \in Terms : search_var' = term
  /\ threads' = Append(threads, [pc |-> "begin", term |-> "", results |-> << >>])
  /\ UNCHANGED << NotSearch, cursor, search_results, after, displayed, status_var >>

\* search_cards up to the query: the term is read from the entry, the status
\* and the clearing of the results are queued.
Begin(i) ==
  /\ threads[i].pc = "begin"
  /\ threads' = [threads EXCEPT ![i].pc = "execute", ![i].term = search_var]
  /\ after' = after \o << << "set_status", "Searching" >>, << "clear_results", "" >> >>
  /\ UNCHANGED << NotSearch, cursor, search_var, search_results, displayed, status_var >>

\* self.cursor.execute(query): the cursor's result set is now this query's.
Execute(i) ==
  /\ threads[i].pc = "execute"
  /\ cursor' = [by |-> i, rows |-> SearchRows(conn, threads[i].term)]
  /\ threads' = [threads EXCEPT ![i].pc = "fetchall"]
  /\ UNCHANGED << NotSearch, search_var, search_results, after, displayed, status_var >>

\* One row of self.cursor.fetchall(): the next row pending on the cursor.
FetchRow(i) ==
  /\ threads[i].pc = "fetchall"
  /\ cursor.rows # << >>
  /\ threads' = [threads EXCEPT ![i].results = Append(@, Head(cursor.rows))]
  /\ cursor' = [cursor EXCEPT !.rows = Tail(@)]
  /\ UNCHANGED << NotSearch, search_var, search_results, after, displayed, status_var >>

\* fetchall returns, and search_cards with it: no row, or the rows stored
\* and their display queued.
FetchEnd(i) ==
  /\ threads[i].pc = "fetchall"
  /\ cursor.rows = << >>
  /\ threads' = [threads EXCEPT ![i].pc = "returned"]
  /\ IF threads[i].results = << >>
       THEN /\ after' = Append(after, << "set_status", "No cards found" >>)
            /\ search_results' = search_results
       ELSE /\ search_results' = threads[i].results
            /\ after' = Append(after, << "display_results", i >>)
  /\ UNCHANGED << NotSearch, cursor, search_var, displayed, status_var >>

\* fetchall on a cursor another thread executed on since: sqlite3 may raise
\* an sqlite3.Error, which search_cards reports.
FetchRaises(i) ==
  /\ threads[i].pc = "fetchall"
  /\ cursor.by # i
  /\ threads' = [threads EXCEPT ![i].pc = "returned"]
  /\ after' = Append(after, << "set_status", "Database error" >>)
  /\ UNCHANGED << NotSearch, cursor, search_var, search_results, displayed, status_var >>

\* The main loop runs the callback at the head of the queue.
MainLoop ==
  /\ after # << >>
  /\ after' = Tail(after)
  /\ LET f == Head(after)
     IN  CASE f[1] = "set_status" ->
                status_var' = f[2] /\ displayed' = displayed
           [] f[1] = "clear_results" ->
                displayed' = [by |-> 0, rows |-> << >>] /\ status_var' = status_var
           [] f[1] = "display_results" ->
                /\ status_var' = "Found"
                /\ displayed' = [by |-> f[2], rows |-> search_results]
  /\ UNCHANGED << NotSearch, threads, cursor, search_var, search_results >>

\* A store left by a sync, and the front-end connected to it.
InitSearch ==
  /\ stale = 0
  /\ disk \in Stores(0)
  /\ source = << >>
  /\ now = 0
  /\ AtRest
  /\ NoNorm
  /\ NoAside

NextSearch ==
  \/ OnSearch
  \/ \E i \in DOMAIN threads : Begin(i)
  \/ \E i \in DOMAIN threads : Execute(i)
  \/ \E i \in DOMAIN threads : FetchRow(i)
  \/ \E i \in DOMAIN threads : FetchEnd(i)
  \/ \E i \in DOMAIN threads : FetchRaises(i)
  \/ MainLoop

SpecSearch == InitSearch /\ [][NextSearch]_vars


\* ----------------------------------------------------------------- claims
\* The entry point of the last run has ended.
RunEnded == pc = "idle" /\ runs > 0 /\ ret # "killed"

\* The card the for loop is at.
Card == RawRecords[data.data[idx]]

\* The rows of id in d are those of one raw record, whole.
FromRecord(d, id, card) ==
  /\ card.id = id
  /\ \A n \in DOMAIN d.cards :
       d.cards[n].id = id =>
         d.cards[n].name = card.name /\ d.cards[n].released_at = card.released_at
  /\ LegalitiesOf(d, id) = Range(card.legalities)
  /\ KeywordsOf(d, id) = Range(card.keywords)

WholeCards(d) ==
  \A id \in CardIds(d) : \E n \in DOMAIN RawRecords : FromRecord(d, id, RawRecords[n])

\* C1: the write of one card is all-or-nothing: no committed state holds a
\* card row without the complete legality and keyword rows of the record the
\* row was written from.
C1_AtomicCardWrite == WholeCards(disk)

\* C2: failure isolation per record: when a run ends after every fetch
\* succeeded and with no storage fault, every record of the result list has
\* its card in the store, whatever record of a page failed on its keywords.
C2_FailureIsolation ==
  (RunEnded /\ status = 200 /\ faults = 0)
    => \A k \in DOMAIN results : HasCard(conn, RawRecords[results[k]].id)

\* C3: replace-not-merge: a pass of the loop that upserts, in overwrite mode,
\* a card whose id is stored leaves exactly the record's legality pairs and
\* keywords stored for that id.
C3_ReplaceNotMerge ==
  [][(pc = "page" /\ idx <= Len(data.data) /\ idx' = idx + 1
        /\ update_existing /\ HasCard(conn, Card.id))
       => /\ LegalitiesOf(conn', Card.id) = Range(Card.legalities)
          /\ KeywordsOf(conn', Card.id) = Range(Card.keywords)
          /\ Len(conn'.legalities) - Len(conn.legalities)
               = Len(Card.legalities) - Cardinality(LegalitiesOf(conn, Card.id))]_vars

\* A stored card with two legalities and one keyword was upserted again from
\* a record with one legality and no keyword.
C3_Witness ==
  /\ pc = "page" /\ update_existing /\ data.data = << 1, 2 >> /\ idx = 3
  /\ LegalitiesOf(conn, "a") = { <<"modern", "legal">> }
  /\ KeywordsOf(conn, "a") = {}


\* The cards table without the last_updated column.
Unstamped(d) ==
  { [id |-> d.cards[n].id, name |-> d.cards[n].name,
     released_at |-> d.cards[n].released_at] : n \in DOMAIN d.cards }

\* The rows of a table as a set.
Rows(t) == { t[n] : n \in DOMAIN t }

\* No two legalities rows share (card_id, format), no two keywords rows are
\* equal, no two cards rows share an id.
NoDuplicates(d) ==
  /\ \A m, n \in DOMAIN d.legalities :
       (d.legalities[m][1] = d.legalities[n][1]
          /\ d.legalities[m][2] = d.legalities[n][2]) => m = n
  /\ \A m, n \in DOMAIN d.keywords : d.keywords[m] = d.keywords[n] => m = n
  /\ \A m, n \in DOMAIN d.cards : d.cards[m].id = d.cards[n].id => m = n

\* The run that ended was the second of two full syncs in a row with the
\* same argument against the same source (the listing never changes, the
\* same fetch, if any, was refused), neither cut by a storage fault.
SecondFullSync(upd) ==
  /\ RunEnded /\ faults = 0
  /\ mode = "full" /\ update_existing = upd
  /\ prev.mode = "full" /\ prev.update_existing = upd
  /\ prev.failAt = failAt

\* C4 as stated: after the second of two full syncs against an unchanged
\* source, both having committed all they wrote, the cards table is what it
\* was after the first, and legalities and keywords hold no duplicate row.
C4_IdempotentSync ==
  (SecondFullSync(TRUE) /\ start.conn = start.disk /\ conn = disk)
    => /\ Rows(conn.cards) = Rows(start.conn.cards)
       /\ NoDuplicates(conn)

\* C4 amended: in overwrite mode the cards table after the second run equals
\* the one after the first in every column but last_updated, the legalities
\* and keywords tables are equal, and no table holds a duplicate row.
C4_IdempotentButStamp ==
  SecondFullSync(TRUE)
    => /\ Unstamped(conn) = Unstamped(start.conn)
       /\ Len(conn.cards) = Len(start.conn.cards)
       /\ Rows(conn.legalities) = Rows(start.conn.legalities)
       /\ Rows(conn.keywords) = Rows(start.conn.keywords)
       /\ NoDuplicates(conn)

\* The second overwrite sync re-stamped a stored card that has legalities
\* and a keyword.
C4_Witness ==
  /\ SecondFullSync(TRUE)
  /\ source = << 1 >>
  /\ conn.cards # start.conn.cards
  /\ conn.keywords # << >>

\* C5: when the fetch of a page after the first is refused, the run ends with
\* every record of the pages before it processed and its card committed,
\* nothing uncommitted or rolled back, and the refused fetch is the last.
C5_PartialRunDurable ==
  (RunEnded /\ fetches > 1 /\ status # 200)
    => /\ \A k \in 1..((fetches - 1) * PageSize) :
            HasCard(disk, RawRecords[results[k]].id)
       /\ done = (fetches - 1) * PageSize
       /\ disk = conn
       /\ fetches = failAt

\* The fetch of page 2 was refused after page 1 put two cards in the store.
C5_Witness ==
  /\ RunEnded /\ fetches = 2 /\ status = 500
  /\ Len(disk.cards) = 2 /\ Len(start.disk.cards) = 0

\* C6: a run reports "Error fetching page" followed by its closing line
\* exactly when a fetch after the first was refused; a run that fetched every
\* page and a run refused on its first page never print that report.
C6_ReportedPartial ==
  RunEnded
    => /\ (fetches > 1 /\ status # 200)
            <=> (\E n \in DOMAIN log : log[n] = "Error fetching page")
       /\ (fetches > 1 /\ status # 200)
            => /\ log[Len(log)] = "Finished"
               /\ \A n \in DOMAIN log :
                    log[n] \notin { "Error fetching cards", "Error fetching updates" }
       /\ (fetches = 1 /\ status \notin { 200, 404 })
            => \A n \in DOMAIN log : log[n] # "Finished"

\* A run was refused on its second page.
C6_Witness ==
  /\ RunEnded /\ fetches = 2 /\ status = 500 /\ mode = "incr"
  /\ log = << "Updating", "Found", "Processed", "Error fetching page", "Finished" >>

\* C7: a storage failure during a sync reaches the caller of the entry point
\* as an error, with the number of records processed before it.
C7_StorageErrorReachesCaller ==
  (RunEnded /\ exc # "none")
    => /\ ret = "raised"
       /\ cards_processed = done

\* C8: a full sync whose first fetch is refused issues that one fetch,
\* processes no record and leaves the store as it was.
C8_FirstPageFatal ==
  (RunEnded /\ mode = "full" /\ failAt = 1)
    => /\ fetches = 1
       /\ done = 0 /\ cards_processed = 0
       /\ conn = start.conn /\ disk = start.disk
       /\ log = << "Starting", "Error fetching cards" >>

\* A full sync was refused on its first page over a store that holds cards
\* while the source lists records.
C8_Witness ==
  /\ RunEnded /\ mode = "full" /\ status = 500 /\ fetches = 1
  /\ source # << >>
  /\ start.conn.cards # << >>

\* C9: an incremental sync answered 404 returns normally without reporting
\* an error, processes no record and leaves the store as it was.
C9_NotFoundIsNoNews ==
  (RunEnded /\ mode = "incr" /\ status = 404)
    => /\ ret = "returned" /\ exc = "none"
       /\ log = << "Updating", "No new cards found" >>
       /\ fetches = 1
       /\ done = 0 /\ cards_processed = 0
       /\ conn = start.conn /\ disk = start.disk

\* An incremental sync over a store that holds cards was answered 404.
C9_Witness ==
  /\ RunEnded /\ mode = "incr" /\ status = 404
  /\ conn.cards # << >> /\ source # << >>

\* The released_at values of the rows the run found in the store.
StartDates == { start.conn.cards[n].released_at : n \in DOMAIN start.conn.cards }

\* C10 as stated: the bound of the incremental query is the greatest
\* released_at of the stored rows, and the sentinel when no row is stored.
C10_Watermark ==
  (mode = "incr")
    => IF start.conn.cards = << >>
         THEN last_update_date = "2000-01-01"
         ELSE /\ last_update_date \in StartDates
              /\ \A u \in StartDates : DateRank(u) <= DateRank(last_update_date)

\* C10 amended: the bound is the greatest released_at of the stored rows
\* when that is not the empty string; it is the sentinel when no row is
\* stored or no stored row has a released_at.
C10_WatermarkOrSentinel ==
  (mode = "incr")
    => IF StartDates \subseteq { "" }
         THEN last_update_date = "2000-01-01"
         ELSE /\ last_update_date \in StartDates
              /\ \A u \in StartDates : DateRank(u) <= DateRank(last_update_date)

\* An incremental sync started over rows released 2020-01-01 and 2023-05-05
\* and asked for the cards released after 2023-05-05.
C10_Witness ==
  /\ mode = "incr"
  /\ StartDates = { "2020-01-01", "2023-05-05" }
  /\ last_update_date = "2023-05-05"


\* Pages in the chain of a result list: the first page whose has_more is
\* false ends it.
ChainLen(list) ==
  IF list = << >> THEN 1 ELSE (Len(list) + PageSize - 1) \div PageSize

\* Fetches of a run that no exception stops: up to the refused fetch, or the
\* whole chain.
FetchesDue == IF failAt \in 1..ChainLen(results) THEN failAt ELSE ChainLen(results)

\* C11 as stated: the run goes on to another fetch only after a page whose
\* has_more is true, and it has stopped only after a page whose has_more is
\* false or after a refused fetch (here: of the runs in which no record
\* raised).
C11_StopsOnFlagOrRefusal ==
  /\ pc = "sleep" => data.has_more /\ status = 200
  /\ (RunEnded /\ exc # "IntegrityError") => (~data.has_more \/ status # 200)

\* C11: a run fetches another page only after a page whose has_more is
\* true; it has stopped only after a page whose has_more is false, after a
\* refused fetch or on an exception out of process_card_page; without an
\* exception it fetches the chain up to the refused fetch, whatever total the
\* source declares; and every run that started ends.
C11_StopsOnFlagRefusalOrException ==
  /\ [](pc = "sleep" => data.has_more /\ status = 200)
  /\ [](RunEnded => (~data.has_more \/ status # 200 \/ exc # "none"))
  /\ []((RunEnded /\ exc = "none") => fetches = FetchesDue)
  /\ (pc # "idle" ~> pc = "idle")

\* A run that went on past the total the source declared.
C11_Witness ==
  /\ RunEnded
  /\ exc = "none"
  /\ fetches = 2
  /\ status = 200
  /\ data.total_cards < cards_processed


\* No two rows of the cards table of d have the same id.
UniqueIds(d) ==
  \A i, j \in DOMAIN d.cards : d.cards[i].id = d.cards[j].id => i = j

\* C12: whatever runs were made, in either mode, over listings that repeat
\* an id within a page or across pages, the cards table holds one row per
\* card id, in the file and in the connection's view.
C12_OneRowPerId ==
  /\ UniqueIds(conn) /\ Len(conn.cards) = Cardinality(CardIds(conn))
  /\ UniqueIds(disk) /\ Len(disk.cards) = Cardinality(CardIds(disk))

\* Two runs that each ingested both versions of "a" from one page.
C12_Witness ==
  /\ RunEnded
  /\ runs = 2
  /\ exc = "none"
  /\ status = 200
  /\ done = 2
  /\ results = << 1, 2 >>
  /\ start.disk.cards # << >>
  /\ Len(disk.cards) = 1


\* last_updated of the row of id in d (the table holds one row per id).
LastUpdated(d, id) ==
  LET n == CHOOSE m \in DOMAIN d.cards : d.cards[m].id = id
  IN  d.cards[n].last_updated

\* C13: a pass of the loop that overwrites a card already stored leaves its
\* last_updated strictly greater than it was.
C13_StampStrictlyIncreases ==
  [][(/\ pc = "page"
      /\ idx <= Len(data.data)
      /\ idx' = idx + 1
      /\ update_existing
      /\ HasCard(conn, Card.id))
     => LastUpdated(conn', Card.id) > LastUpdated(conn, Card.id)]_vars


\* The rows of id in the three tables of d, in their order.
RowsOf(d, id) ==
  [cards |-> SelectSeq(d.cards, LAMBDA x : x.id = id),
   legalities |-> SelectSeq(d.legalities, LAMBDA x : x[1] = id),
   keywords |-> SelectSeq(d.keywords, LAMBDA x : x[1] = id)]

\* C14: during and after fetch_all_cards(update_existing=False) every id
\* that was stored when the run started has the card row, last_updated
\* included, the legality rows and the keyword rows it had then.
C14_SkipKeepsStored ==
  (runs > 0 /\ mode = "full" /\ ~update_existing /\ ret # "killed")
    => \A id \in CardIds(start.conn) : RowsOf(conn, id) = RowsOf(start.conn, id)

\* A skip-existing run that met both versions of the stored "a", skipped
\* them and inserted "c".
C14_Witness ==
  /\ RunEnded
  /\ mode = "full"
  /\ ~update_existing
  /\ exc = "none"
  /\ status = 200
  /\ results = << 1, 2, 4 >>
  /\ CardIds(start.conn) = {"a"}
  /\ CardIds(conn) = {"a", "c"}


\* C15: when the process is killed inside a run, every card in the file has
\* the columns, the legality rows and the keyword rows of one raw record.
C15_KilledStoreWhole == ret = "killed" => WholeCards(disk)


\* C16: no step removes a card id from the file, and no step but the kill
\* of the process, which discards what was not committed, removes one from
\* what the connection reads.
C16_IdsOnlyGrow ==
  [][/\ CardIds(disk) \subseteq CardIds(disk')
     /\ (pc # "idle" /\ ret' = "killed") \/ CardIds(conn) \subseteq CardIds(conn')]_vars

\* A second run, in overwrite mode, went over the two stored cards.
C16_Witness ==
  /\ RunEnded
  /\ runs = 2
  /\ update_existing
  /\ exc = "none"
  /\ done = 3
  /\ CardIds(start.disk) = {"a", "c"}
  /\ CardIds(disk) = {"a", "c"}


\* C17: the page in hand is the page of the listing that the number of
\* fetches names; a fetch after the first is made only when the page before
\* it is processed to its end and committed, it follows one more delay, and
\* it brings the page named by next_page; the delays of a run are its
\* fetches less the first.
C17_InOrderAndThrottled ==
  /\ [](pc \in {"page", "sleep"} => data = Page(results, fetches))
  /\ [](runs > 0 => sleeps = fetches - 1)
  /\ [][(fetches > 0 /\ fetches' = fetches + 1)
         => /\ idx > Len(data.data)
            /\ disk = conn
            /\ sleeps' = sleeps + 1
            /\ NextPageOk(status') => data' = Page(results, data.next_page)]_vars

\* The second page of a run in hand, after one delay, the first committed.
C17_Witness ==
  /\ pc = "page"
  /\ fetches = 2
  /\ sleeps = 1
  /\ idx = 1
  /\ data.data # << >>
  /\ disk.cards # << >>


\* The record's own text, "" when it has none.
DirectText == Get(raw, "oracle_text", "")

\* C18: the stored oracle_text is the record's own text when that is not
\* empty; else, when the record has faces, the texts of its faces joined
\* with " // " in face order; and a record with no text and no faces is
\* stored, with the empty string.
C18_OracleText ==
  /\ npc \in {"stored", "read"} =>
       row[1].oracle_text =
         IF DirectText # "" THEN DirectText
         ELSE IF Has(raw, "card_faces")
           THEN LET texts == SelectSeq(raw["card_faces"],
                                       LAMBDA f : Has(f, "oracle_text"))
                IN  Join(" // ", [n \in DOMAIN texts |-> texts[n]["oracle_text"]])
         ELSE ""
  /\ (npc # "raw" /\ DirectText = "" /\ ~Has(raw, "card_faces")) =>
       npc # "raised" /\ row[1].oracle_text = "" /\ row[1].oracle_text # None

\* A record with no text of its own and two faces, stored as "A // B".
C18_Witness ==
  /\ npc = "stored"
  /\ ~Has(raw, "oracle_text")
  /\ Has(raw, "card_faces")
  /\ Len(raw["card_faces"]) = 2
  /\ row[1].oracle_text = "A // B"

\* The image the claim names: the record's own normal size, else the first
\* face's, else none.
FallbackImage ==
  IF Has(raw, "image_uris") /\ Has(raw["image_uris"], "normal")
    THEN raw["image_uris"]["normal"]
  ELSE IF /\ Has(raw, "card_faces")
          /\ raw["card_faces"] # << >>
          /\ Has(raw["card_faces"][1], "image_uris")
          /\ Has(raw["card_faces"][1]["image_uris"], "normal")
    THEN raw["card_faces"][1]["image_uris"]["normal"]
  ELSE None

\* C19: every record is stored, none makes the loop body fail, and its
\* image_uri is the record's own normal-size URI, else the first face's,
\* else null.
C19_ImageFallback ==
  npc # "raw" => npc # "raised" /\ row[1].image_uri = FallbackImage

\* C20: the colors and color_identity get_card_details returns are the
\* lists of the raw record (the empty list for a missing key), element for
\* element and in the same order.
C20_ColorRoundTrip ==
  npc = "read" =>
    /\ details[1].colors = Get(raw, "colors", << >>)
    /\ details[1].color_identity = Get(raw, "color_identity", << >>)

\* Read back: a colors list that is not sorted and a color_identity that
\* repeats a letter.
C20_Witness ==
  /\ npc = "read"
  /\ Has(raw, "colors")
  /\ details[1].colors = << "U", "W" >>
  /\ details[1].color_identity = << "W", "W" >>
  /\ row[1].colors = << "[", "\"", "U", "\"", ",", " ", "\"", "W", "\"", "]" >>


\* The sum of the counts of a dict of counts.
RECURSIVE Total(_)
Total(counts) ==
  IF DOMAIN counts = {} THEN 0
  ELSE LET g == CHOOSE x \in DOMAIN counts : TRUE
       IN  counts[g] + Total([h \in DOMAIN counts \ {g} |-> counts[h]])

\* The group C21 names for a color identity list.
NamedColorGroup(list) ==
  IF list = << >> THEN "Colorless"
  ELSE IF Len(list) = 1 /\ list[1] \in ColorLetters
    THEN CASE list[1] = "W" -> "White" [] list[1] = "U" -> "Blue"
           [] list[1] = "B" -> "Black" [] list[1] = "R" -> "Red"
           [] list[1] = "G" -> "Green"
  ELSE "Multicolor"

\* C21: get_stats counts under each colour group the cards whose color
\* identity is empty (Colorless), one of the five letters alone (that
\* colour's name) or anything else (Multicolor), each card in one group.
C21_ColorGroups ==
  stats # << >> =>
    LET named == [i \in DOMAIN table |->
                    NamedColorGroup(JsonLoads(table[i].color_identity))]
    IN  /\ DOMAIN stats[1].colors = Range(named)
        /\ \A g \in Range(named) :
             stats[1].colors[g] = Cardinality({ i \in DOMAIN table : named[i] = g })
        /\ Total(stats[1].colors) = Len(table)

\* Counted: a card of identity [U] and a card of identity [U, W].
C21_Witness ==
  /\ stats # << >>
  /\ Len(table) = 2
  /\ JsonLoads(table[1].color_identity) = << "U" >>
  /\ JsonLoads(table[2].color_identity) = << "U", "W" >>
  /\ stats[1].colors = [g \in {"Blue", "Multicolor"} |-> 1]

\* The words of C22 in their priority order.
TypeOrder ==
  << "Creature", "Planeswalker", "Instant", "Sorcery", "Enchantment",
     "Artifact", "Land" >>

\* The group C22 names for a type line: the earliest word of the order that
\* the type line contains, "Other" when it contains none.
NamedTypeGroup(type_line) ==
  LET hits == { n \in DOMAIN TypeOrder : Like(type_line, TypeOrder[n]) }
  IN  IF hits = {} THEN "Other"
      ELSE TypeOrder[CHOOSE n \in hits : \A m \in hits : n <= m]

\* C22: get_stats counts each card under the earliest word of the order
\* Creature, Planeswalker, Instant, Sorcery, Enchantment, Artifact, Land
\* that its type line contains, under "Other" when it contains none, and
\* under no other group.
C22_TypeGroups ==
  stats # << >> =>
    LET named == [i \in DOMAIN table |-> NamedTypeGroup(table[i].type_line)]
    IN  /\ DOMAIN stats[1].types = Range(named)
        /\ \A g \in Range(named) :
             stats[1].types[g] = Cardinality({ i \in DOMAIN table : named[i] = g })
        /\ Total(stats[1].types) = Len(table)

\* Counted: an artifact creature and a land creature, both as Creature.
C22_Witness ==
  /\ stats # << >>
  /\ Len(table) = 2
  /\ table[1].type_line = "Artifact Creature"
  /\ table[2].type_line = "Land Creature"
  /\ stats[1].types = [g \in {"Creature"} |-> 2]


\* C23: opening a file that already holds the three tables leaves every row
\* of them as it was and raises nothing, each time it is done.
C23_CreateTablesIdempotent ==
  [][(opens' = opens + 1 /\ schema = Range(TableNames))
       => (disk' = disk /\ schema' = schema /\ exc' = "none")]_vars

\* Opened twice or more: a store with rows in each of the three tables.
C23_Witness ==
  /\ opens >= 2
  /\ disk.cards # << >> /\ disk.legalities # << >> /\ disk.keywords # << >>
  /\ exc = "none"


\* The place of the last record of id in a listing.
LastOf(list, id) ==
  CHOOSE k \in DOMAIN list :
    /\ RawRecords[list[k]].id = id
    /\ \A j \in DOMAIN list : RawRecords[list[j]].id = id => j <= k

\* C24: when fetch_all_cards(update_existing=True) ends after every fetch
\* succeeded and no record raised, each id of the source has one card row,
\* and its row, legalities and keywords are those of the last record of that
\* id in the listing; the rows of every other id are those the store had.
C24_LastWriterWins ==
  (RunEnded /\ mode = "full" /\ update_existing /\ status = 200 /\ exc = "none")
    => \A id \in Ids :
         IF \E k \in DOMAIN source : RawRecords[source[k]].id = id
           THEN /\ Len(RowsOf(disk, id).cards) = 1
                /\ FromRecord(disk, id, RawRecords[source[LastOf(source, id)]])
           ELSE RowsOf(disk, id) = RowsOf(start.disk, id)

\* Ended well: a full sync of a listing that has id "a" on two pages, on a
\* store that held "a" and "c"; "c" is not in the listing.
C24_Witness ==
  /\ RunEnded /\ mode = "full" /\ update_existing /\ status = 200 /\ exc = "none"
  /\ source = << 2, 1 >>
  /\ HasCard(start.disk, "a") /\ HasCard(disk, "c")
  /\ \A n \in DOMAIN disk.cards : disk.cards[n].id = "a" => disk.cards[n].name = "A1"


\* C25: a card the source adds when its released_at is not after the
\* greatest released_at stored, and its id is not stored, is in the store
\* after no update_database, however many of them run.
C25_BackDatedNeverIngested ==
  \A id \in late : ~HasCard(conn, id) /\ ~HasCard(disk, id)

\* Two update_database ran after the source added "c" behind the watermark
\* and "a" ahead of it: "a" was ingested.
C25_Witness ==
  /\ RunEnded /\ runs = 2 /\ mode = "incr"
  /\ late = {"c"}
  /\ source = << 3, 4, 2 >>
  /\ HasCard(disk, "a") /\ HasCard(disk, "b")


\* Every legalities row and every keywords row of d has the id of a cards
\* row of d.
NoOrphans(d) ==
  /\ \A n \in DOMAIN d.legalities : HasCard(d, d.legalities[n][1])
  /\ \A n \in DOMAIN d.keywords : HasCard(d, d.keywords[n][1])

\* C26: in every committed state, whatever runs came before it, each
\* legalities row and each keywords row has a card_id that a cards row has.
C26_NoOrphans == NoOrphans(disk)

\* Committed by the second of two runs that ended well: legalities and
\* keywords rows.
C26_Witness ==
  /\ RunEnded /\ runs = 2 /\ status = 200 /\ exc = "none" /\ ret = "returned"
  /\ prev.failAt = 0 /\ faults = 0
  /\ disk = conn
  /\ disk.legalities # << >> /\ disk.keywords # << >>

\* C27: a pass of the loop body leaves the card rows, legality rows and
\* keyword rows of every id other than the record's as they were.
C27_OnlyOwnRows ==
  [][(pc = "page" /\ idx <= Len(data.data))
       => \A id \in Ids \ {Card.id} : RowsOf(conn', id) = RowsOf(conn, id)]_vars

\* Upserted in overwrite mode: stored card "a", while "c" is stored with
\* its keyword.
C27_Witness ==
  /\ pc = "page" /\ idx = 2 /\ update_existing
  /\ RawRecords[data.data[1]].id = "a"
  /\ HasCard(start.conn, "a")
  /\ KeywordsOf(conn, "c") # {} /\ KeywordsOf(start.conn, "a") # KeywordsOf(conn, "a")


\* C28: every search thread that returned holds the rows of the query it
\* executed, and the rows a display shows are those of the query of the
\* thread that queued the display.
C28_OwnRows ==
  /\ \A i \in DOMAIN threads :
       threads[i].pc = "returned"
         => threads[i].results = SearchRows(conn, threads[i].term)
  /\ displayed.by # 0
       => displayed.rows = SearchRows(conn, threads[displayed.by].term)
====
